---- MODULE Spec2Model ----
(***************************************************************************)
(* The ledger engine of bankManagementSystem.py: BankOperations'           *)
(* create_account, deposit, withdraw and transfer, each run by its own     *)
(* SQLAlchemy session against the shared accounts / transactions tables.   *)
(*                                                                         *)
(* A session reads committed rows with a query, changes its loaded objects *)
(* in memory, and session.commit() flushes the changed attributes as       *)
(* absolute values (UPDATE accounts SET balance = <value computed in       *)
(* Python>) together with the new rows, inside one database transaction.   *)
(* The steps of different sessions interleave freely; no step takes a      *)
(* lock.  Amounts are exact integers of the smallest currency unit.        *)
(***************************************************************************)
EXTENDS Integers, Sequences, FiniteSets, TLC

\* ------------------------------------------------------------------ bounds
MaxNumber == 2          \* account numbers are drawn from 1..MaxNumber
MaxAmount == 2          \* amounts passed to an operation: -1..MaxAmount
MaxBalance == 1         \* balances the tables hold when a behaviour starts

Sessions == {1, 2}      \* sessions (callers) running operations in parallel
Numbers == 1..MaxNumber
Bystander == MaxNumber + 1  \* the number of an account that no call names
Amounts == (-1)..MaxAmount
Users == {1}
UserIds == {1, 2}
AccountTypes == {"savings"}

VARIABLES
    db,         \* committed tables: [accounts, transactions]
    start,      \* the committed tables the behaviour started with
    pc,         \* pc[s]: where session s stands in its operation
    call,       \* call[s]: the operation and its arguments
    sess,       \* sess[s]: objects the session has loaded by its queries
                \* (rows of a list by their ids, the place in the table)
    result      \* result[s]: what the call returned

vars == <<db, start, pc, call, sess, result>>

\* ------------------------------------------------------------------ rows
NoAccount == [id |-> 0, balance |-> 0]
NoCall == [op |-> "none", user_id |-> 0, account_type |-> "", account_number |-> 0,
           target_account_number |-> 0, amount |-> 0]
NoSess == [account |-> NoAccount, target |-> NoAccount, account_number |-> 0,
           transactions |-> <<>>, accounts |-> {}]
NoRows == [updates |-> <<>>, accounts |-> <<>>, transactions |-> <<>>]
EmptyDb == [accounts |-> <<>>, transactions |-> <<>>]

\* Account(user_id=..., account_number=..., account_type=..., balance=0.0)
Account(user_id, account_number, account_type) ==
    [user_id |-> user_id, account_number |-> account_number,
     account_type |-> account_type, balance |-> 0]

\* Transaction(account_id=..., type=..., amount=..., target_account_number=...)
\* target_account_number is 0 for the column's NULL; timestamp is 0 until the
\* INSERT fills the column's default in.
Transaction(account_id, type, amount, target_account_number) ==
    [account_id |-> account_id, type |-> type, amount |-> amount,
     target_account_number |-> target_account_number, timestamp |-> 0]

\* ------------------------------------------------------------------ queries
\* session.query(Account).filter_by(account_number=n).first(): the row's id
\* (its place in the table) and the balance it holds now, or NoAccount.
query_account(accounts, n) ==
    IF \E i \in 1..Len(accounts) : accounts[i].account_number = n
    THEN LET i == CHOOSE k \in 1..Len(accounts) :
                    /\ accounts[k].account_number = n
                    /\ \A j \in 1..(k - 1) : accounts[j].account_number # n
         IN [id |-> i, balance |-> accounts[i].balance]
    ELSE NoAccount

\* session.query(Transaction)[.filter_by(account_id=...)]
\*     .order_by(Transaction.timestamp.desc()).all()
\* over the rows ids: every order of them with the timestamps descending. The
\* statement has no second sort key, so rows of equal timestamp come in
\* whatever order the database produces them.
order_by_timestamp_desc(transactions, ids) ==
    {rows \in [1..Cardinality(ids) -> ids] :
        /\ \A i \in DOMAIN rows, j \in DOMAIN rows : i # j => rows[i] # rows[j]
        /\ \A i \in DOMAIN rows, j \in DOMAIN rows :
              i < j => transactions[rows[i]].timestamp >= transactions[rows[j]].timestamp}

\* session.get(User, user_id)
get_user(user_id) == user_id \in Users

\* ------------------------------------------------------------------ storage
\* The column is declared without unique=True.
unique_violation_off(accounts, rows) == FALSE

\* The unique=True constraint of Account.account_number: inserting a row
\* whose number a committed row holds raises IntegrityError.
unique_violation(accounts, rows) ==
    \/ \E k \in 1..Len(rows) : \E i \in 1..Len(accounts) :
          accounts[i].account_number = rows[k].account_number
    \/ \E k \in 1..Len(rows) : \E j \in 1..Len(rows) :
          k # j /\ rows[k].account_number = rows[j].account_number

\* UPDATE accounts SET balance = u.balance WHERE id = u.id, for every update.
apply_updates(accounts, updates) ==
    [i \in 1..Len(accounts) |->
        IF \E k \in 1..Len(updates) : updates[k].id = i
        THEN LET k == CHOOSE k \in 1..Len(updates) :
                        /\ updates[k].id = i
                        /\ \A j \in (k + 1)..Len(updates) : updates[j].id # i
             IN [accounts[i] EXCEPT !.balance = updates[k].balance]
        ELSE accounts[i]]

\* The latest timestamp a committed row carries (0 when there is none).
clock(transactions) ==
    IF transactions = <<>> THEN 0
    ELSE LET i == CHOOSE i \in 1..Len(transactions) :
                     \A j \in 1..Len(transactions) :
                         transactions[j].timestamp <= transactions[i].timestamp
         IN transactions[i].timestamp

\* What datetime.now can return for n rows inserted one after another: the
\* clock does not run backwards, and it may not have advanced since the row
\* before (two calls within one tick of the clock return equal values).
Nows(transactions, n) ==
    LET last == clock(transactions)
        first == {IF last = 0 THEN 1 ELSE last, last + 1}
    IN  {times \in [1..n -> first \cup {last + 2}] :
            /\ n > 0 => times[1] \in first
            /\ \A k \in 2..n : times[k] \in {times[k - 1], times[k - 1] + 1}}

\* timestamp = Column(DateTime, default=datetime.now): the INSERT of each
\* Transaction row fills in the time of the insert.
timestamp_default(w, times) ==
    [w EXCEPT !.transactions =
        [k \in 1..Len(w.transactions) |->
            [w.transactions[k] EXCEPT !.timestamp = times[k]]]]

\* The new rows are merged over the last rows of the table.
session_commit_merges(d, w) ==
    [accounts |-> apply_updates(d.accounts, w.updates) \o w.accounts,
     transactions |->
        SubSeq(d.transactions, 1, Len(d.transactions) - Len(w.transactions))
        \o w.transactions]

\* COMMIT: every row of the transaction becomes visible at once.
session_commit(d, w) ==
    [accounts |-> apply_updates(d.accounts, w.updates) \o w.accounts,
     transactions |-> d.transactions \o w.transactions]

\* The balance UPDATEs were committed on their own and stay.
session_rollback_keeps_updates(d, w) ==
    [d EXCEPT !.accounts = apply_updates(d.accounts, w.updates)]

\* ROLLBACK: the rows of the transaction are dropped.
session_rollback(d, w) == d

\* The query of one session sees the rows w another session has written and
\* not committed (a dirty read).
visible_uncommitted(d, w) ==
    [accounts |-> apply_updates(d.accounts, w.updates) \o w.accounts,
     transactions |-> d.transactions \o w.transactions]

\* What a query of one session sees of the rows w another session has
\* written and not committed: nothing.
visible(d, w) == d

\* ------------------------------------------------------------------ validation
\* Only negative amounts are refused.
invalid_amount_negative(amount) == amount < 0

\* if amount <= 0: return False, "... must be a positive number."
invalid_amount(amount) == amount <= 0

\* The check refuses a debit of the whole balance.
insufficient_whole(balance, amount) == balance <= amount

\* The balance check left out.
insufficient_never(balance, amount) == FALSE

\* if account.balance < amount: return False, "Insufficient balance..."
insufficient(balance, amount) == balance < amount

\* The comparison of the two numbers left out.
same_account_never(source, target) == FALSE

\* if source_account_number == target_account_number
same_account(source, target) == source = target

\* ------------------------------------------------------------------ init
TypeOK ==
    /\ pc \in [Sessions -> {"idle", "done",
                            "ca_user", "ca_number", "ca_commit",
                            "dep_query", "dep_commit",
                            "wd_query", "wd_commit",
                            "tr_source", "tr_target", "tr_commit",
                            "bal_query", "hist_account", "hist_rows",
                            "ua_query", "all_query"}]
    /\ \A i \in 1..Len(db.accounts) : db.accounts[i].account_number \in Numbers \cup {Bystander}

\* Tables as earlier calls, run one after another from the empty tables of
\* init_db(), leave them: create_account of number n, then deposit of b.
OneAccount(n, b) ==
    [accounts |-> <<[Account(1, n, "savings") EXCEPT !.balance = b]>>,
     transactions |->
        timestamp_default(
            [NoRows EXCEPT !.transactions =
                IF b > 0 THEN <<Transaction(1, "deposit", b, 0)>> ELSE <<>>],
            <<1>>).transactions]

TwoAccounts(n1, b1, n2, b2) ==
    [accounts |-> <<[Account(1, n1, "savings") EXCEPT !.balance = b1],
                    [Account(1, n2, "savings") EXCEPT !.balance = b2]>>,
     transactions |->
        timestamp_default(
            [NoRows EXCEPT !.transactions =
                (IF b1 > 0 THEN <<Transaction(1, "deposit", b1, 0)>> ELSE <<>>)
                \o (IF b2 > 0 THEN <<Transaction(2, "deposit", b2, 0)>> ELSE <<>>)],
            <<1, 2>>).transactions]

ThreeAccounts(n1, b1, n2, b2, n3, b3) ==
    [accounts |-> <<[Account(1, n1, "savings") EXCEPT !.balance = b1],
                    [Account(1, n2, "savings") EXCEPT !.balance = b2],
                    [Account(1, n3, "savings") EXCEPT !.balance = b3]>>,
     transactions |->
        timestamp_default(
            [NoRows EXCEPT !.transactions =
                (IF b1 > 0 THEN <<Transaction(1, "deposit", b1, 0)>> ELSE <<>>)
                \o (IF b2 > 0 THEN <<Transaction(2, "deposit", b2, 0)>> ELSE <<>>)
                \o (IF b3 > 0 THEN <<Transaction(3, "deposit", b3, 0)>> ELSE <<>>)],
            <<1, 2, 3>>).transactions]

Ledgers ==
    {EmptyDb}
    \cup {OneAccount(1, b) : b \in 0..MaxBalance}
    \cup {TwoAccounts(1, b1, 2, b2) : b1 \in 0..MaxBalance, b2 \in 0..MaxBalance}
    \cup {ThreeAccounts(1, MaxBalance, 2, MaxBalance, Bystander, MaxBalance)}

Init ==
    /\ db \in Ledgers
    /\ start = db
    /\ pc = [s \in Sessions |-> "idle"]
    /\ call = [s \in Sessions |-> NoCall]
    /\ sess = [s \in Sessions |-> NoSess]
    /\ result = [s \in Sessions |-> "none"]

\* A caller makes its call.
Begin(s, c) ==
    /\ pc[s] = "idle"
    /\ call' = [call EXCEPT ![s] = c]

\* The call passed its argument checks and opens its session: session = Session()
Open(s, at) ==
    /\ pc' = [pc EXCEPT ![s] = at]
    /\ UNCHANGED result

\* The call returns: return <tuple>, after finally: session.close()
Finish(s, r) ==
    /\ pc' = [pc EXCEPT ![s] = "done"]
    /\ result' = [result EXCEPT ![s] = r]

\* ------------------------------------------------------------------ deposit
deposit(s, account_number, amount) ==
    /\ Begin(s, [NoCall EXCEPT !.op = "deposit", !.account_number = account_number,
                               !.amount = amount])
    /\ IF invalid_amount(amount)
       THEN Finish(s, "InvalidAmount")
       ELSE Open(s, "dep_query")
    /\ UNCHANGED <<db, start, sess>>

deposit_query(s) ==
    /\ pc[s] = "dep_query"
    /\ LET account == query_account(db.accounts, call[s].account_number) IN
         /\ sess' = [sess EXCEPT ![s].account = account]
         /\ IF account = NoAccount
            THEN Finish(s, "AccountNotFound")
            ELSE Open(s, "dep_commit")
    /\ UNCHANGED <<db, start, call>>

\* The row records the new balance in place of the amount.
deposit_rows_records_balance(account, amount) ==
    [updates |-> <<[id |-> account.id, balance |-> account.balance + amount]>>,
     accounts |-> <<>>,
     transactions |-> <<Transaction(account.id, "deposit", account.balance + amount, 0)>>]

\* account.balance += amount; session.add(Transaction(...)): what the flush writes
deposit_rows(account, amount) ==
    [updates |-> <<[id |-> account.id, balance |-> account.balance + amount]>>,
     accounts |-> <<>>,
     transactions |-> <<Transaction(account.id, "deposit", amount, 0)>>]

deposit_commit(s) ==
    /\ pc[s] = "dep_commit"
    /\ LET rows == deposit_rows(sess[s].account, call[s].amount) IN
         \E times \in Nows(db.transactions, Len(rows.transactions)) :
             db' = session_commit(db, timestamp_default(rows, times))
    /\ Finish(s, "ok")
    /\ UNCHANGED <<start, call, sess>>

\* except SQLAlchemyError: session.rollback(); return False, "... database error"
\* A query, the flush or the COMMIT raised.
deposit_except(s) ==
    /\ pc[s] \in {"dep_query", "dep_commit"}
    /\ db' = session_rollback(db, IF pc[s] = "dep_commit"
                                  THEN deposit_rows(sess[s].account, call[s].amount)
                                  ELSE NoRows)
    /\ Finish(s, "DatabaseError")
    /\ UNCHANGED <<start, call, sess>>

\* ------------------------------------------------------------------ withdraw
withdraw(s, account_number, amount) ==
    /\ Begin(s, [NoCall EXCEPT !.op = "withdraw", !.account_number = account_number,
                               !.amount = amount])
    /\ IF invalid_amount(amount)
       THEN Finish(s, "InvalidAmount")
       ELSE Open(s, "wd_query")
    /\ UNCHANGED <<db, start, sess>>

withdraw_query(s) ==
    /\ pc[s] = "wd_query"
    /\ LET account == query_account(db.accounts, call[s].account_number) IN
         /\ sess' = [sess EXCEPT ![s].account = account]
         /\ IF account = NoAccount
            THEN Finish(s, "AccountNotFound")
            ELSE IF insufficient(account.balance, call[s].amount)
            THEN Finish(s, "InsufficientFunds")
            ELSE Open(s, "wd_commit")
    /\ UNCHANGED <<db, start, call>>

\* The row is added and the balance left as it was.
withdraw_rows_no_update(account, amount) ==
    [updates |-> <<>>,
     accounts |-> <<>>,
     transactions |-> <<Transaction(account.id, "withdrawal", amount, 0)>>]

\* The row records the debit as a negative amount.
withdraw_rows_negative(account, amount) ==
    [updates |-> <<[id |-> account.id, balance |-> account.balance - amount]>>,
     accounts |-> <<>>,
     transactions |-> <<Transaction(account.id, "withdrawal", 0 - amount, 0)>>]

\* account.balance -= amount; session.add(Transaction(...)): what the flush writes
withdraw_rows(account, amount) ==
    [updates |-> <<[id |-> account.id, balance |-> account.balance - amount]>>,
     accounts |-> <<>>,
     transactions |-> <<Transaction(account.id, "withdrawal", amount, 0)>>]

withdraw_commit(s) ==
    /\ pc[s] = "wd_commit"
    /\ LET rows == withdraw_rows(sess[s].account, call[s].amount) IN
         \E times \in Nows(db.transactions, Len(rows.transactions)) :
             db' = session_commit(db, timestamp_default(rows, times))
    /\ Finish(s, "ok")
    /\ UNCHANGED <<start, call, sess>>

withdraw_except(s) ==
    /\ pc[s] \in {"wd_query", "wd_commit"}
    /\ db' = session_rollback(db, IF pc[s] = "wd_commit"
                                  THEN withdraw_rows(sess[s].account, call[s].amount)
                                  ELSE NoRows)
    /\ Finish(s, "DatabaseError")
    /\ UNCHANGED <<start, call, sess>>

\* ------------------------------------------------------------------ transfer
transfer(s, source_account_number, target_account_number, amount) ==
    /\ Begin(s, [NoCall EXCEPT !.op = "transfer",
                               !.account_number = source_account_number,
                               !.target_account_number = target_account_number,
                               !.amount = amount])
    /\ IF invalid_amount(amount)
       THEN Finish(s, "InvalidAmount")
       ELSE IF same_account(source_account_number, target_account_number)
       THEN Finish(s, "SameAccount")
       ELSE Open(s, "tr_source")
    /\ UNCHANGED <<db, start, sess>>

\* source_account = session.query(Account).filter_by(...).first()
transfer_source(s) ==
    /\ pc[s] = "tr_source"
    /\ sess' = [sess EXCEPT ![s].account = query_account(db.accounts, call[s].account_number)]
    /\ Open(s, "tr_target")
    /\ UNCHANGED <<db, start, call>>

\* The target is checked before the source.
transfer_target_first(s) ==
    /\ pc[s] = "tr_target"
    /\ LET target == query_account(db.accounts, call[s].target_account_number) IN
         /\ sess' = [sess EXCEPT ![s].target = target]
         /\ IF target = NoAccount
            THEN Finish(s, "TargetNotFound")
            ELSE IF sess[s].account = NoAccount
            THEN Finish(s, "SourceNotFound")
            ELSE IF insufficient(sess[s].account.balance, call[s].amount)
            THEN Finish(s, "InsufficientFunds")
            ELSE Open(s, "tr_commit")
    /\ UNCHANGED <<db, start, call>>

\* The funds are checked before the target.
transfer_target_funds_first(s) ==
    /\ pc[s] = "tr_target"
    /\ LET target == query_account(db.accounts, call[s].target_account_number) IN
         /\ sess' = [sess EXCEPT ![s].target = target]
         /\ IF sess[s].account = NoAccount
            THEN Finish(s, "SourceNotFound")
            ELSE IF insufficient(sess[s].account.balance, call[s].amount)
            THEN Finish(s, "InsufficientFunds")
            ELSE IF target = NoAccount
            THEN Finish(s, "TargetNotFound")
            ELSE Open(s, "tr_commit")
    /\ UNCHANGED <<db, start, call>>

\* target_account = session.query(...).first(), then the three checks
transfer_target(s) ==
    /\ pc[s] = "tr_target"
    /\ LET target == query_account(db.accounts, call[s].target_account_number) IN
         /\ sess' = [sess EXCEPT ![s].target = target]
         /\ IF sess[s].account = NoAccount
            THEN Finish(s, "SourceNotFound")
            ELSE IF target = NoAccount
            THEN Finish(s, "TargetNotFound")
            ELSE IF insufficient(sess[s].account.balance, call[s].amount)
            THEN Finish(s, "InsufficientFunds")
            ELSE Open(s, "tr_commit")
    /\ UNCHANGED <<db, start, call>>

\* Only transfer_out_txn is added to the session.
transfer_rows_out_only(source, target, c) ==
    [updates |-> <<[id |-> source.id, balance |-> source.balance - c.amount],
                   [id |-> target.id, balance |-> target.balance + c.amount]>>,
     accounts |-> <<>>,
     transactions |->
        <<Transaction(source.id, "transfer_out", c.amount, c.target_account_number)>>]

\* The target is not credited.
transfer_rows_no_credit(source, target, c) ==
    [updates |-> <<[id |-> source.id, balance |-> source.balance - c.amount]>>,
     accounts |-> <<>>,
     transactions |->
        <<Transaction(source.id, "transfer_out", c.amount, c.target_account_number),
          Transaction(target.id, "transfer_in", c.amount, c.account_number)>>]

\* source_account.balance -= amount; target_account.balance += amount;
\* session.add_all([transfer_out_txn, transfer_in_txn]): what the flush writes
transfer_rows(source, target, c) ==
    [updates |-> <<[id |-> source.id, balance |-> source.balance - c.amount],
                   [id |-> target.id, balance |-> target.balance + c.amount]>>,
     accounts |-> <<>>,
     transactions |->
        <<Transaction(source.id, "transfer_out", c.amount, c.target_account_number),
          Transaction(target.id, "transfer_in", c.amount, c.account_number)>>]

transfer_commit(s) ==
    /\ pc[s] = "tr_commit"
    /\ LET rows == transfer_rows(sess[s].account, sess[s].target, call[s]) IN
         \E times \in Nows(db.transactions, Len(rows.transactions)) :
             db' = session_commit(db, timestamp_default(rows, times))
    /\ Finish(s, "ok")
    /\ UNCHANGED <<start, call, sess>>

transfer_except(s) ==
    /\ pc[s] \in {"tr_source", "tr_target", "tr_commit"}
    /\ db' = session_rollback(db, IF pc[s] = "tr_commit"
                                  THEN transfer_rows(sess[s].account, sess[s].target, call[s])
                                  ELSE NoRows)
    /\ Finish(s, "DatabaseError")
    /\ UNCHANGED <<start, call, sess>>

\* ------------------------------------------------------------------ create_account
create_account(s, user_id, account_type) ==
    /\ Begin(s, [NoCall EXCEPT !.op = "create_account", !.user_id = user_id,
                               !.account_type = account_type])
    /\ Open(s, "ca_user")
    /\ UNCHANGED <<db, start, sess>>

\* user = session.get(User, user_id); account_number = self.generate_account_number()
create_account_user(s) ==
    /\ pc[s] = "ca_user"
    /\ IF ~get_user(call[s].user_id)
       THEN /\ Finish(s, "UserNotFound")
            /\ UNCHANGED sess
       ELSE /\ \E n \in Numbers : sess' = [sess EXCEPT ![s].account_number = n]
            /\ Open(s, "ca_number")
    /\ UNCHANGED <<db, start, call>>

\* The generator returns the same number at every call.
create_account_number_fixed(s) ==
    /\ pc[s] = "ca_number"
    /\ IF query_account(db.accounts, sess[s].account_number) # NoAccount
       THEN /\ sess' = [sess EXCEPT ![s].account_number = 1]
            /\ UNCHANGED pc
       ELSE /\ pc' = [pc EXCEPT ![s] = "ca_commit"]
            /\ UNCHANGED sess
    /\ UNCHANGED <<db, start, call, result>>

\* while session.query(Account).filter_by(account_number=...).first():
\*     account_number = self.generate_account_number()
create_account_number(s) ==
    /\ pc[s] = "ca_number"
    /\ IF query_account(db.accounts, sess[s].account_number) # NoAccount
       THEN /\ \E n \in Numbers : sess' = [sess EXCEPT ![s].account_number = n]
            /\ UNCHANGED pc
       ELSE /\ pc' = [pc EXCEPT ![s] = "ca_commit"]
            /\ UNCHANGED sess
    /\ UNCHANGED <<db, start, call, result>>

\* The new account is opened with a balance.
create_account_rows_bonus(c, account_number) ==
    [updates |-> <<>>,
     accounts |-> <<[Account(c.user_id, account_number, c.account_type)
                        EXCEPT !.balance = 1]>>,
     transactions |-> <<>>]

\* new_account = Account(...); session.add(new_account): what the flush writes
create_account_rows(c, account_number) ==
    [updates |-> <<>>,
     accounts |-> <<Account(c.user_id, account_number, c.account_type)>>,
     transactions |-> <<>>]

\* session.commit(): the INSERT is refused by the unique constraint when a
\* committed row holds the number (the call then leaves by create_account_except)
create_account_commit(s) ==
    /\ pc[s] = "ca_commit"
    /\ LET rows == create_account_rows(call[s], sess[s].account_number) IN
         /\ ~unique_violation(db.accounts, rows.accounts)
         /\ db' = session_commit(db, rows)
    /\ Finish(s, "ok")
    /\ UNCHANGED <<start, call, sess>>

\* except SQLAlchemyError (IntegrityError among them): session.rollback()
create_account_except(s) ==
    /\ pc[s] \in {"ca_user", "ca_number", "ca_commit"}
    /\ db' = session_rollback(db, IF pc[s] = "ca_commit"
                                  THEN create_account_rows(call[s], sess[s].account_number)
                                  ELSE NoRows)
    /\ Finish(s, "DatabaseError")
    /\ UNCHANGED <<start, call, sess>>

\* ------------------------------------------------------------------ reads
\* The rows session t has written in its transaction and not committed.
uncommitted(t) ==
    CASE pc[t] = "dep_commit" -> deposit_rows(sess[t].account, call[t].amount)
      [] pc[t] = "wd_commit" -> withdraw_rows(sess[t].account, call[t].amount)
      [] pc[t] = "tr_commit" -> transfer_rows(sess[t].account, sess[t].target, call[t])
      [] pc[t] = "ca_commit" -> create_account_rows(call[t], sess[t].account_number)
      [] OTHER -> NoRows

get_account_balance(s, account_number) ==
    /\ Begin(s, [NoCall EXCEPT !.op = "get_account_balance",
                               !.account_number = account_number])
    /\ Open(s, "bal_query")
    /\ UNCHANGED <<db, start, sess>>

\* account = session.query(Account).filter_by(...).first()
\* return account.balance, True   or   return None, False
get_account_balance_query(s) ==
    /\ pc[s] = "bal_query"
    /\ \E t \in Sessions :
         /\ t # s
         /\ LET account == query_account(visible(db, uncommitted(t)).accounts,
                                         call[s].account_number) IN
              /\ sess' = [sess EXCEPT ![s].account = account]
              /\ Finish(s, IF account = NoAccount THEN "AccountNotFound" ELSE "ok")
    /\ UNCHANGED <<db, start, call>>

\* except SQLAlchemyError: print(...); return None, False
\* The caller gets the tuple it gets for a number no account holds.
get_account_balance_except(s) ==
    /\ pc[s] = "bal_query"
    /\ Finish(s, "AccountNotFound")
    /\ UNCHANGED <<db, start, call, sess>>

get_transaction_history(s, account_number) ==
    /\ Begin(s, [NoCall EXCEPT !.op = "get_transaction_history",
                               !.account_number = account_number])
    /\ Open(s, "hist_account")
    /\ UNCHANGED <<db, start, sess>>

\* account = session.query(Account).filter_by(...).first()
\* if not account: return None, "Account not found."
get_transaction_history_account(s) ==
    /\ pc[s] = "hist_account"
    /\ LET account == query_account(db.accounts, call[s].account_number) IN
         /\ sess' = [sess EXCEPT ![s].account = account]
         /\ IF account = NoAccount
            THEN Finish(s, "AccountNotFound")
            ELSE Open(s, "hist_rows")
    /\ UNCHANGED <<db, start, call>>

\* transactions = session.query(Transaction).filter_by(account_id=account.id)
\*     .order_by(Transaction.timestamp.desc()).all(); return transactions, "Success"
get_transaction_history_rows(s) ==
    /\ pc[s] = "hist_rows"
    /\ LET owned(r) == r.account_id = sess[s].account.id IN
         \E rows \in order_by_timestamp_desc(db.transactions,
                                             {i \in 1..Len(db.transactions) :
                                                 owned(db.transactions[i])}) :
             sess' = [sess EXCEPT ![s].transactions = rows]
    /\ Finish(s, "ok")
    /\ UNCHANGED <<db, start, call>>

\* except SQLAlchemyError: return None, "Failed to retrieve ..."
get_transaction_history_except(s) ==
    /\ pc[s] \in {"hist_account", "hist_rows"}
    /\ Finish(s, "DatabaseError")
    /\ UNCHANGED <<db, start, call, sess>>

get_user_accounts(s, user_id) ==
    /\ Begin(s, [NoCall EXCEPT !.op = "get_user_accounts", !.user_id = user_id])
    /\ Open(s, "ua_query")
    /\ UNCHANGED <<db, start, sess>>

\* A user without accounts is given one by the lookup.
get_user_accounts_query_creates(s) ==
    /\ pc[s] = "ua_query"
    /\ LET accounts == {i \in 1..Len(db.accounts) :
                           db.accounts[i].user_id = call[s].user_id}
           free == {n \in Numbers : query_account(db.accounts, n) = NoAccount}
       IN  /\ sess' = [sess EXCEPT ![s].accounts = accounts]
           /\ IF accounts = {} /\ free # {}
              THEN \E n \in free :
                      db' = [db EXCEPT !.accounts =
                                Append(@, Account(call[s].user_id, n, "savings"))]
              ELSE db' = db
    /\ Finish(s, "ok")
    /\ UNCHANGED <<start, call>>

\* accounts = session.query(Account).filter_by(user_id=user_id).all()
\* return accounts, "Success"   (the list is kept here without its order)
get_user_accounts_query(s) ==
    /\ pc[s] = "ua_query"
    /\ sess' = [sess EXCEPT ![s].accounts =
                    {i \in 1..Len(db.accounts) : db.accounts[i].user_id = call[s].user_id}]
    /\ Finish(s, "ok")
    /\ UNCHANGED <<db, start, call>>

\* except SQLAlchemyError: return [], "Failed to retrieve user accounts ..."
get_user_accounts_except(s) ==
    /\ pc[s] = "ua_query"
    /\ Finish(s, "DatabaseError")
    /\ UNCHANGED <<db, start, call, sess>>

\* AdminOperations.get_all_transactions
get_all_transactions(s) ==
    /\ Begin(s, [NoCall EXCEPT !.op = "get_all_transactions"])
    /\ Open(s, "all_query")
    /\ UNCHANGED <<db, start, sess>>

\* transactions = session.query(Transaction)
\*     .order_by(Transaction.timestamp.desc()).all(); return transactions, "Success"
get_all_transactions_query(s) ==
    /\ pc[s] = "all_query"
    /\ \E rows \in order_by_timestamp_desc(db.transactions, 1..Len(db.transactions)) :
         sess' = [sess EXCEPT ![s].transactions = rows]
    /\ Finish(s, "ok")
    /\ UNCHANGED <<db, start, call>>

\* except SQLAlchemyError: return [], "Failed to retrieve all transactions ..."
get_all_transactions_except(s) ==
    /\ pc[s] = "all_query"
    /\ Finish(s, "DatabaseError")
    /\ UNCHANGED <<db, start, call, sess>>

\* ------------------------------------------------------------------ one call alone
\* What call c does to tables d and returns when no other session runs
\* between its steps and the storage does not fail (the clock is taken to
\* advance by one tick per row).
serial(d, c) ==
    LET commit(w) ==
            session_commit(d, timestamp_default(w,
                [k \in 1..Len(w.transactions) |-> clock(d.transactions) + k]))
    IN
    CASE c.op = "deposit" ->
           IF invalid_amount(c.amount) THEN [db |-> d, result |-> "InvalidAmount"]
           ELSE LET account == query_account(d.accounts, c.account_number) IN
                IF account = NoAccount THEN [db |-> d, result |-> "AccountNotFound"]
                ELSE [db |-> commit(deposit_rows(account, c.amount)),
                      result |-> "ok"]
      [] c.op = "withdraw" ->
           IF invalid_amount(c.amount) THEN [db |-> d, result |-> "InvalidAmount"]
           ELSE LET account == query_account(d.accounts, c.account_number) IN
                IF account = NoAccount THEN [db |-> d, result |-> "AccountNotFound"]
                ELSE IF insufficient(account.balance, c.amount)
                THEN [db |-> d, result |-> "InsufficientFunds"]
                ELSE [db |-> commit(withdraw_rows(account, c.amount)),
                      result |-> "ok"]
      [] c.op = "transfer" ->
           IF invalid_amount(c.amount) THEN [db |-> d, result |-> "InvalidAmount"]
           ELSE IF same_account(c.account_number, c.target_account_number)
           THEN [db |-> d, result |-> "SameAccount"]
           ELSE LET source == query_account(d.accounts, c.account_number)
                    target == query_account(d.accounts, c.target_account_number)
                IN  IF source = NoAccount THEN [db |-> d, result |-> "SourceNotFound"]
                    ELSE IF target = NoAccount THEN [db |-> d, result |-> "TargetNotFound"]
                    ELSE IF insufficient(source.balance, c.amount)
                    THEN [db |-> d, result |-> "InsufficientFunds"]
                    ELSE [db |-> commit(transfer_rows(source, target, c)),
                          result |-> "ok"]
      [] OTHER -> [db |-> d, result |-> "none"]

\* ------------------------------------------------------------------ next
Next ==
    \E s \in Sessions :
        \/ \E u \in UserIds, t \in AccountTypes : create_account(s, u, t)
        \/ create_account_user(s)
        \/ create_account_number(s)
        \/ create_account_commit(s)
        \/ create_account_except(s)
        \/ \E n \in Numbers, a \in Amounts : deposit(s, n, a)
        \/ deposit_query(s)
        \/ deposit_commit(s)
        \/ deposit_except(s)
        \/ \E n \in Numbers, a \in Amounts : withdraw(s, n, a)
        \/ withdraw_query(s)
        \/ withdraw_commit(s)
        \/ withdraw_except(s)
        \/ \E n \in Numbers, m \in Numbers, a \in Amounts : transfer(s, n, m, a)
        \/ transfer_source(s)
        \/ transfer_target(s)
        \/ transfer_commit(s)
        \/ transfer_except(s)
        \/ \E n \in Numbers : get_account_balance(s, n)
        \/ get_account_balance_query(s)
        \/ get_account_balance_except(s)
        \/ \E n \in Numbers : get_transaction_history(s, n)
        \/ get_transaction_history_account(s)
        \/ get_transaction_history_rows(s)
        \/ get_transaction_history_except(s)
        \/ \E u \in UserIds : get_user_accounts(s, u)
        \/ get_user_accounts_query(s)
        \/ get_user_accounts_except(s)
        \/ get_all_transactions(s)
        \/ get_all_transactions_query(s)
        \/ get_all_transactions_except(s)

Spec == Init /\ [][Next]_vars

\* A session in the loop of create_account goes on running, and
\* random.choices draws fairly: a number that can be drawn again and again is
\* drawn at some time.
Fairness ==
    \A s \in Sessions, n \in Numbers :
        WF_vars(create_account_number(s) /\ sess'[s].account_number = n)

FairSpec == Spec /\ Fairness

\* ------------------------------------------------------------------ properties
LedgerOps == {"deposit", "withdraw", "transfer"}
Callers == {s \in Sessions : call[s].op # "none"}
AllReturned == \A s \in Sessions : pc[s] \in {"idle", "done"}

RECURSIVE SumBalances(_)
SumBalances(accounts) ==
    IF accounts = <<>> THEN 0
    ELSE accounts[1].balance + SumBalances(Tail(accounts))

\* The rows of the transactions table that satisfy Test(_).
Rows(transactions, Test(_)) == {i \in 1..Len(transactions) : Test(transactions[i])}

\* C1: every committed balance is >= 0, whatever calls ran, interleaved in
\* whatever way, and however they ended.
C1_BalanceNonNegative ==
    \A i \in 1..Len(db.accounts) : db.accounts[i].balance >= 0

\* C1 witness: two debits of one account both succeeded although together
\* they take more than the account held.
C1_Witness ==
    \E s \in Sessions, t \in Sessions :
        /\ s # t
        /\ call[s].op = "withdraw" /\ call[t].op \in {"withdraw", "transfer"}
        /\ result[s] = "ok" /\ result[t] = "ok"
        /\ call[s].account_number = call[t].account_number
        /\ LET a == query_account(start.accounts, call[s].account_number) IN
             /\ a # NoAccount
             /\ call[s].amount + call[t].amount > a.balance

\* C2: N concurrent deposit(A, x) calls, x > 0, on an existing account A all
\* succeed, raise balance(A) by exactly N * x and add exactly N deposit rows.
\* (A call that the storage failed is outside the claim.)
C2_NoLostDeposit ==
    \A n \in Numbers, x \in 1..MaxAmount :
        LET a0 == query_account(start.accounts, n)
            a1 == query_account(db.accounts, n)
            IsDeposit(r) == r.account_id = a0.id /\ r.type = "deposit"
        IN  ( /\ Callers # {}
              /\ a0 # NoAccount
              /\ \A s \in Callers : /\ call[s].op = "deposit"
                                    /\ call[s].account_number = n
                                    /\ call[s].amount = x
                                    /\ pc[s] = "done"
                                    /\ result[s] # "DatabaseError" )
            => /\ \A s \in Callers : result[s] = "ok"
               /\ a1.balance = a0.balance + Cardinality(Callers) * x
               /\ Cardinality(Rows(db.transactions, IsDeposit))
                    = Cardinality(Rows(start.transactions, IsDeposit)) + Cardinality(Callers)

\* C3: when only transfer calls run, the sum of all balances stays what it
\* was at the start.
C3_TransfersConserve ==
    (\A s \in Sessions : call[s].op \in {"none", "transfer"})
    => SumBalances(db.accounts) = SumBalances(start.accounts)

\* C4: the transfer rows are paired: for every source S, target T and amount a,
\* the transfer_out rows of S naming T, the transfer_in rows of T naming S and
\* the transfer(S, T, a) calls that succeeded are equally many.
C4_TransferRowsPaired ==
    \A S \in 1..Len(db.accounts), T \in 1..Len(db.accounts), a \in 1..MaxAmount :
        LET Sn == db.accounts[S].account_number
            Tn == db.accounts[T].account_number
            Out(r) == /\ r.type = "transfer_out" /\ r.account_id = S
                      /\ r.amount = a /\ r.target_account_number = Tn
            In(r) == /\ r.type = "transfer_in" /\ r.account_id = T
                     /\ r.amount = a /\ r.target_account_number = Sn
            Succeeded == {s \in Sessions :
                            /\ call[s].op = "transfer" /\ result[s] = "ok"
                            /\ call[s].account_number = Sn
                            /\ call[s].target_account_number = Tn
                            /\ call[s].amount = a}
        IN  /\ Cardinality(Rows(db.transactions, Out)) = Cardinality(Succeeded)
            /\ Cardinality(Rows(db.transactions, In)) = Cardinality(Succeeded)

\* C4 witness: two transfers over the same two accounts, in opposite
\* directions, have both succeeded.
C4_Witness ==
    \E s \in Sessions, t \in Sessions :
        /\ call[s].op = "transfer" /\ call[t].op = "transfer"
        /\ result[s] = "ok" /\ result[t] = "ok"
        /\ call[s].account_number = call[t].target_account_number
        /\ call[s].target_account_number = call[t].account_number

\* Session s takes the step.
Step(s) == <<pc[s], call[s], sess[s], result[s]>> # <<pc'[s], call'[s], sess'[s], result'[s]>>

\* C5: a deposit, withdraw or transfer commits its balance writes and its
\* rows together or not at all: a step of the call that does not return
\* success (a storage failure among them) leaves the tables as they were, and
\* the one step that changes them writes every balance and every row of the call.
C5_AllOrNothing ==
    [][\A s \in Sessions :
          (Step(s) /\ call'[s].op \in LedgerOps) =>
             \/ /\ result'[s] # "ok"
                /\ db' = db
             \/ /\ result'[s] = "ok"
                /\ call[s].op \in {"deposit", "withdraw"}
                /\ Len(db'.transactions) = Len(db.transactions) + 1
                /\ db'.transactions[Len(db'.transactions)].account_id = sess[s].account.id
                /\ db'.accounts[sess[s].account.id].balance # sess[s].account.balance
             \/ /\ result'[s] = "ok"
                /\ call[s].op = "transfer"
                /\ Len(db'.transactions) = Len(db.transactions) + 2
                /\ db'.accounts[sess[s].account.id].balance
                     = sess[s].account.balance - call[s].amount
                /\ db'.accounts[sess[s].target.id].balance
                     = sess[s].target.balance + call[s].amount]_vars

\* C5 witness: the storage failed a transfer at its commit, after both
\* accounts were loaded and the funds were found sufficient, while the other
\* session's deposit failed too; the tables are as at the start.
C5_Witness ==
    \E s \in Sessions, t \in Sessions :
        /\ call[s].op = "transfer" /\ result[s] = "DatabaseError"
        /\ sess[s].account # NoAccount /\ sess[s].target # NoAccount
        /\ call[t].op = "deposit" /\ result[t] = "DatabaseError"
        /\ sess[t].account # NoAccount
        /\ db = start

\* C6: a withdraw or transfer returns InsufficientFunds only on reading a
\* balance strictly below the amount, and the step that returns it changes no
\* balance and no row.
C6_InsufficientFundsNoChange ==
    [][\A s \in Sessions :
          (pc[s] # "done" /\ result'[s] = "InsufficientFunds") =>
             /\ call[s].op \in {"withdraw", "transfer"}
             /\ sess'[s].account.balance < call[s].amount
             /\ db' = db]_vars

\* C6 witness: a withdraw and a transfer both returned InsufficientFunds.
C6_Witness ==
    \E s \in Sessions, t \in Sessions :
        /\ call[s].op = "withdraw" /\ result[s] = "InsufficientFunds"
        /\ call[t].op = "transfer" /\ result[t] = "InsufficientFunds"
        /\ db = start

\* The orders in which the sessions' calls can be run one after another.
Orders ==
    {f \in [1..Cardinality(Sessions) -> Sessions] :
        \A i \in DOMAIN f, j \in DOMAIN f : i # j => f[i] # f[j]}

\* The tables after the calls of f[1..k] ran one after another from the start,
\* a call the storage failed having done nothing.
RECURSIVE SerialDb(_, _)
SerialDb(f, k) ==
    IF k = 0 THEN start
    ELSE IF result[f[k]] = "DatabaseError" THEN SerialDb(f, k - 1)
    ELSE serial(SerialDb(f, k - 1), call[f[k]]).db

\* The tables without the times of the inserts.
Untimed(d) ==
    [d EXCEPT !.transactions =
        [k \in 1..Len(d.transactions) |-> [d.transactions[k] EXCEPT !.timestamp = 0]]]

\* C7: concurrent deposit / withdraw / transfer calls leave the balances, the
\* rows and the results that running them one after another, in some order,
\* leaves.
C7_Serializable ==
    (AllReturned /\ \A s \in Callers : call[s].op \in LedgerOps) =>
        \E f \in Orders :
            /\ Untimed(SerialDb(f, Cardinality(Sessions))) = Untimed(db)
            /\ \A k \in DOMAIN f :
                  result[f[k]] \in {"none", "DatabaseError"}
                  \/ result[f[k]] = serial(SerialDb(f, k - 1), call[f[k]]).result

\* C8: no two committed accounts hold the same account_number, and every
\* committed account beyond those of the start was inserted by a
\* create_account call that returned success: a call that failed inserted none.
C8_AccountNumbersUnique ==
    /\ \A i \in 1..Len(db.accounts), j \in 1..Len(db.accounts) :
          i # j => db.accounts[i].account_number # db.accounts[j].account_number
    /\ Len(db.accounts) = Len(start.accounts)
          + Cardinality({s \in Sessions : call[s].op = "create_account" /\ result[s] = "ok"})
    /\ \A s \in Sessions :
          (call[s].op = "create_account" /\ result[s] = "ok")
          => query_account(db.accounts, sess[s].account_number) # NoAccount

\* C8 witness: both sessions drew the same number and passed the existence
\* check; one has inserted and returned, the other stands before its commit.
C8_Witness ==
    \E s \in Sessions, t \in Sessions :
        /\ s # t
        /\ call[s].op = "create_account" /\ result[s] = "ok"
        /\ pc[t] = "ca_commit"
        /\ sess[t].account_number = sess[s].account_number
        /\ query_account(start.accounts, sess[t].account_number) = NoAccount

\* The accounts a transfer has loaded and works on.
Held(s) ==
    CASE pc[s] = "tr_target" -> {call[s].account_number}
      [] pc[s] = "tr_commit" -> {call[s].account_number, call[s].target_account_number}
      [] OTHER -> {}

\* C9 (its lock discipline): a transfer takes its two accounts in ascending
\* order of account number, and holds them exclusively: no two transfers in
\* flight work on a common account.
C9_ExclusiveAscending ==
    \A s \in Sessions :
        /\ Held(s) # {} => call[s].account_number < call[s].target_account_number
        /\ \A t \in Sessions : s # t => Held(s) \cap Held(t) = {}

\* C10: a deposit, withdraw or transfer called with amount <= 0 returns
\* InvalidAmount in the step of the call itself: no account is loaded, no
\* balance and no row changes, whether or not the named accounts exist.
C10_InvalidAmountFirst ==
    [][\A s \in Sessions :
          (pc[s] = "idle" /\ call'[s].op \in LedgerOps /\ call'[s].amount <= 0) =>
             /\ pc'[s] = "done"
             /\ result'[s] = "InvalidAmount"
             /\ sess'[s] = NoSess
             /\ db' = db]_vars

\* C10 witness: a negative amount on a number no account holds and a zero
\* amount on an existing account were both refused.
C10_Witness ==
    \E s \in Sessions, t \in Sessions :
        /\ result[s] = "InvalidAmount" /\ call[s].amount < 0
        /\ query_account(db.accounts, call[s].account_number) = NoAccount
        /\ result[t] = "InvalidAmount" /\ call[t].amount = 0
        /\ query_account(db.accounts, call[t].account_number) # NoAccount

\* C11: a transfer with amount > 0 whose source and target numbers are equal
\* returns SameAccount in the step of the call itself and changes no balance
\* and no row, whether or not an account holds the number.
C11_SameAccount ==
    [][\A s \in Sessions :
          ( /\ pc[s] = "idle"
            /\ call'[s].op = "transfer"
            /\ call'[s].amount > 0
            /\ call'[s].account_number = call'[s].target_account_number ) =>
             /\ pc'[s] = "done"
             /\ result'[s] = "SameAccount"
             /\ sess'[s] = NoSess
             /\ db' = db]_vars

\* C11 witness: SameAccount was returned for a number no account holds and
\* for the number of an account with a balance.
C11_Witness ==
    \E s \in Sessions, t \in Sessions :
        /\ result[s] = "SameAccount"
        /\ query_account(db.accounts, call[s].account_number) = NoAccount
        /\ result[t] = "SameAccount"
        /\ query_account(db.accounts, call[t].account_number).balance > 0
        /\ db = start

\* The calls that name one account and look it up first.
AccountOps == {"deposit", "withdraw", "get_account_balance", "get_transaction_history"}
NotFound == {"AccountNotFound", "SourceNotFound", "TargetNotFound"}
Missing(d, n) == query_account(d.accounts, n) = NoAccount

\* C12: a deposit, withdraw, balance lookup or history lookup that names a
\* number no account holds returns AccountNotFound; a transfer whose source
\* no account holds returns SourceNotFound (whether or not the target exists),
\* and one whose source exists and whose target no account holds returns
\* TargetNotFound; calls that return these change no balance and no row.
\* (Calls refused for their arguments or failed by the storage are outside.)
C12_AccountNotFound ==
    /\ \A s \in Sessions :
          ( /\ pc[s] = "done"
            /\ result[s] \notin {"DatabaseError", "InvalidAmount", "SameAccount"} ) =>
             /\ (call[s].op \in AccountOps /\ Missing(db, call[s].account_number))
                   => result[s] = "AccountNotFound"
             /\ (call[s].op = "transfer" /\ Missing(db, call[s].account_number))
                   => result[s] = "SourceNotFound"
             /\ ( /\ call[s].op = "transfer"
                  /\ ~Missing(start, call[s].account_number)
                  /\ Missing(db, call[s].target_account_number) )
                   => result[s] = "TargetNotFound"
    /\ (\A s \in Callers : pc[s] = "done" /\ result[s] \in NotFound) => db = start

\* C12 witness: a transfer naming two numbers no account holds returned
\* SourceNotFound while a history lookup returned AccountNotFound.
C12_Witness ==
    \E s \in Sessions, t \in Sessions :
        /\ call[s].op = "transfer" /\ result[s] = "SourceNotFound"
        /\ Missing(db, call[s].target_account_number)
        /\ call[t].op = "get_transaction_history" /\ result[t] = "AccountNotFound"
        /\ Missing(db, call[t].account_number)

\* No other session has made a call: what s did, it did alone, from start.
Alone(s) == \A t \in Sessions : t # s => pc[t] = "idle"

\* Tables d1 hold the rows of d0 and n more after them.
Appended(d0, d1, n) ==
    /\ Len(d1.transactions) = Len(d0.transactions) + n
    /\ SubSeq(d1.transactions, 1, Len(d0.transactions)) = d0.transactions

\* Row r is of the given type, owner, amount and counterparty.
IsRow(r, type, account_id, amount, target_account_number) ==
    /\ r.type = type /\ r.account_id = account_id /\ r.amount = amount
    /\ r.target_account_number = target_account_number

\* Session s read the balance that the account still holds.
Fresh(s, account) == db.accounts[account.id].balance = account.balance

\* C13: a deposit(A, amount) with amount > 0 on an existing account, run with
\* no other call between its steps, succeeds (unless the storage fails it),
\* raises the balance of A by exactly amount, appends exactly one deposit row
\* owned by A, of that amount and without counterparty, and leaves every other
\* balance and every row already there as it was.
C13_DepositAlone ==
    /\ [](\A s \in Sessions :
            LET a == query_account(start.accounts, call[s].account_number) IN
            ( /\ call[s].op = "deposit" /\ pc[s] = "done" /\ Alone(s)
              /\ call[s].amount > 0 /\ a # NoAccount
              /\ result[s] # "DatabaseError" ) =>
               /\ result[s] = "ok"
               /\ db.accounts = [start.accounts EXCEPT ![a.id].balance = @ + call[s].amount]
               /\ Appended(start, db, 1)
               /\ IsRow(db.transactions[Len(db.transactions)],
                        "deposit", a.id, call[s].amount, 0))
    /\ [][\A s \in Sessions :
            ( /\ pc[s] = "dep_commit" /\ result'[s] = "ok"
              /\ Fresh(s, sess[s].account) ) =>
               /\ db'.accounts = [db.accounts EXCEPT ![sess[s].account.id].balance
                                                        = @ + call[s].amount]
               /\ Appended(db, db', 1)
               /\ IsRow(db'.transactions[Len(db'.transactions)],
                        "deposit", sess[s].account.id, call[s].amount, 0)]_vars

\* C13 witness: a deposit into an account that held a balance succeeded alone,
\* on tables with other accounts and earlier rows.
C13_Witness ==
    \E s \in Sessions :
        /\ call[s].op = "deposit" /\ result[s] = "ok" /\ Alone(s)
        /\ query_account(start.accounts, call[s].account_number).balance > 0
        /\ Len(start.accounts) > 2
        /\ Len(start.transactions) > 2

\* C14: a withdraw(A, amount) with amount > 0 on an existing account, run with
\* no other call between its steps, succeeds exactly when balance(A) >= amount
\* (the whole balance can be withdrawn) and returns InsufficientFunds
\* otherwise; on success the balance of A falls by exactly amount, exactly one
\* withdrawal row of A is appended and no other balance changes.
C14_WithdrawAlone ==
    /\ [](\A s \in Sessions :
            LET a == query_account(start.accounts, call[s].account_number) IN
            ( /\ call[s].op = "withdraw" /\ pc[s] = "done" /\ Alone(s)
              /\ call[s].amount > 0 /\ a # NoAccount
              /\ result[s] # "DatabaseError" ) =>
               IF a.balance >= call[s].amount
               THEN /\ result[s] = "ok"
                    /\ db.accounts = [start.accounts EXCEPT ![a.id].balance
                                                              = @ - call[s].amount]
                    /\ Appended(start, db, 1)
                    /\ IsRow(db.transactions[Len(db.transactions)],
                             "withdrawal", a.id, call[s].amount, 0)
               ELSE /\ result[s] = "InsufficientFunds"
                    /\ db = start)
    /\ [][\A s \in Sessions :
            ( /\ pc[s] = "wd_commit" /\ result'[s] = "ok"
              /\ Fresh(s, sess[s].account) ) =>
               /\ db'.accounts = [db.accounts EXCEPT ![sess[s].account.id].balance
                                                        = @ - call[s].amount]
               /\ Appended(db, db', 1)
               /\ IsRow(db'.transactions[Len(db'.transactions)],
                        "withdrawal", sess[s].account.id, call[s].amount, 0)]_vars

\* C14 witness: the whole balance of an account was withdrawn alone, on tables
\* with other accounts that hold balances.
C14_Witness ==
    \E s \in Sessions :
        /\ call[s].op = "withdraw" /\ result[s] = "ok" /\ Alone(s)
        /\ query_account(start.accounts, call[s].account_number).balance = call[s].amount
        /\ query_account(db.accounts, call[s].account_number).balance = 0
        /\ Len(start.accounts) > 2

\* C15: a transfer(S, T, amount) with amount > 0, S # T, both accounts
\* existing and balance(S) >= amount, run with no other call between its
\* steps, succeeds (unless the storage fails it), lowers balance(S) by exactly
\* amount, raises balance(T) by exactly amount and leaves the balance of every
\* other account as it was.
C15_TransferAlone ==
    /\ [](\A s \in Sessions :
            LET S == query_account(start.accounts, call[s].account_number)
                T == query_account(start.accounts, call[s].target_account_number)
            IN
            ( /\ call[s].op = "transfer" /\ pc[s] = "done" /\ Alone(s)
              /\ call[s].amount > 0 /\ S # NoAccount /\ T # NoAccount /\ S.id # T.id
              /\ S.balance >= call[s].amount
              /\ result[s] # "DatabaseError" ) =>
               /\ result[s] = "ok"
               /\ db.accounts = [start.accounts EXCEPT
                                    ![S.id].balance = @ - call[s].amount,
                                    ![T.id].balance = @ + call[s].amount])
    /\ [][\A s \in Sessions :
            ( /\ pc[s] = "tr_commit" /\ result'[s] = "ok"
              /\ Fresh(s, sess[s].account) /\ Fresh(s, sess[s].target) ) =>
               db'.accounts = [db.accounts EXCEPT
                                  ![sess[s].account.id].balance = @ - call[s].amount,
                                  ![sess[s].target.id].balance = @ + call[s].amount]]_vars

\* C15 witness: a transfer between two accounts succeeded alone on tables
\* that hold a third account with a balance.
C15_Witness ==
    \E s \in Sessions :
        /\ call[s].op = "transfer" /\ result[s] = "ok" /\ Alone(s)
        /\ Len(start.accounts) > 2
        /\ \E i \in 1..Len(db.accounts) :
              /\ db.accounts[i].account_number
                   \notin {call[s].account_number, call[s].target_account_number}
              /\ db.accounts[i].balance > 0

\* C16: the transactions table is append-only: every step leaves each
\* committed row in its place and as it was; rows are only added after them.
C16_AppendOnly ==
    [][/\ Len(db'.transactions) >= Len(db.transactions)
       /\ SubSeq(db'.transactions, 1, Len(db.transactions)) = db.transactions]_vars

\* C16 witness: both sessions have committed rows after the rows of the
\* start, which are still the table's first rows.
C16_Witness ==
    /\ start.transactions # <<>>
    /\ \A s \in Sessions : call[s].op \in LedgerOps /\ result[s] = "ok"
    /\ Len(db.transactions) >= Len(start.transactions) + 3
    /\ SubSeq(db.transactions, 1, Len(start.transactions)) = start.transactions

TransactionTypes == {"deposit", "withdrawal", "transfer_out", "transfer_in"}

\* C17: every committed row is well formed: its type is deposit, withdrawal,
\* transfer_out or transfer_in; its amount is > 0; its account_id is the id of
\* a committed account; and it names a counterparty exactly when its type is
\* transfer_out or transfer_in.
C17_RowsWellFormed ==
    \A i \in 1..Len(db.transactions) :
        LET r == db.transactions[i] IN
        /\ r.type \in TransactionTypes
        /\ r.amount > 0
        /\ r.account_id \in 1..Len(db.accounts)
        /\ (r.target_account_number # 0) <=> (r.type \in {"transfer_out", "transfer_in"})

\* C17 witness: the table holds rows of all four types.
C17_Witness ==
    \A type \in TransactionTypes :
        \E i \in 1..Len(db.transactions) : db.transactions[i].type = type

\* The rows ids of the table newest first: timestamps descending, rows of
\* equal timestamp in the order of their insertion, the later one first.
NewestFirst(transactions, ids) ==
    CHOOSE rows \in [1..Cardinality(ids) -> ids] :
        \A i \in DOMAIN rows, j \in DOMAIN rows :
            i < j => \/ transactions[rows[i]].timestamp > transactions[rows[j]].timestamp
                     \/ /\ transactions[rows[i]].timestamp = transactions[rows[j]].timestamp
                        /\ rows[i] > rows[j]

\* C18: a history lookup of an existing account returns exactly the committed
\* rows of that account, ordered by timestamp descending, rows of equal
\* timestamp by insertion order with the newest first; the listing of all
\* transactions returns every committed row in the same order.
C18_NewestFirst ==
    [][\A s \in Sessions :
          /\ (pc[s] = "hist_rows" /\ result'[s] = "ok") =>
                sess'[s].transactions =
                    NewestFirst(db.transactions,
                                {i \in 1..Len(db.transactions) :
                                    db.transactions[i].account_id = sess[s].account.id})
          /\ (pc[s] = "all_query" /\ result'[s] = "ok") =>
                sess'[s].transactions =
                    NewestFirst(db.transactions, 1..Len(db.transactions))]_vars

ReadOps == {"get_account_balance", "get_transaction_history", "get_user_accounts"}

\* C20: the balance lookup, the history lookup and the listing of a user's
\* accounts are pure: no step of such a call, however it ends, changes an
\* account, a balance or a row.
C20_ReadsPure ==
    [][\A s \in Sessions : (Step(s) /\ call'[s].op \in ReadOps) => db' = db]_vars

\* C20 witness: a history lookup has returned rows and a listing has
\* returned no account (the user has none), and the tables are those of the
\* start.
C20_Witness ==
    \E s \in Sessions, t \in Sessions :
        /\ call[s].op = "get_transaction_history" /\ result[s] = "ok"
        /\ sess[s].transactions # <<>>
        /\ call[t].op = "get_user_accounts" /\ result[t] = "ok"
        /\ sess[t].accounts = {}
        /\ db = start

\* C21: a create_account for an existing user that succeeds adds exactly one
\* account row, with balance 0, the given user and type, and no transaction
\* row, and leaves every account and row already there as it was; a
\* create_account for a user id that does not exist returns UserNotFound; a
\* create_account that does not succeed adds no account. (A call the storage
\* fails is outside the first two parts.)
C21_CreateAccount ==
    /\ [](\A s \in Sessions :
            ( /\ call[s].op = "create_account" /\ pc[s] = "done"
              /\ result[s] # "DatabaseError" ) =>
               result[s] = IF call[s].user_id \in Users THEN "ok" ELSE "UserNotFound")
    /\ [][\A s \in Sessions :
            (Step(s) /\ call'[s].op = "create_account") =>
               IF result'[s] = "ok"
               THEN /\ db'.accounts =
                         Append(db.accounts,
                                [user_id |-> call[s].user_id,
                                 account_number |-> sess[s].account_number,
                                 account_type |-> call[s].account_type,
                                 balance |-> 0])
                    /\ db'.transactions = db.transactions
               ELSE db' = db]_vars

\* C21 witness: on tables that hold an account and a row, one create_account
\* has succeeded and one for an unknown user has returned UserNotFound.
C21_Witness ==
    \E s \in Sessions, t \in Sessions :
        /\ call[s].op = "create_account" /\ result[s] = "ok"
        /\ call[t].op = "create_account" /\ result[t] = "UserNotFound"
        /\ start.accounts # <<>> /\ start.transactions # <<>>
        /\ Len(db.accounts) = Len(start.accounts) + 1

\* Some number of the number space is held by no committed account.
Unused == \E n \in Numbers : Missing(db, n)

\* C22: create_account leaves its loop only on a check that found no
\* committed account holding the candidate, and it is that candidate it goes
\* on to insert; and when the candidates are drawn fairly, a session in the
\* loop leaves it whenever some number is unused.
C22_Resampling ==
    /\ [][\A s \in Sessions :
            /\ (pc[s] = "ca_number" /\ pc'[s] = "ca_commit") =>
                  Missing(db, sess'[s].account_number)
            /\ (pc[s] = "ca_commit" /\ Step(s)) =>
                  sess'[s].account_number = sess[s].account_number]_vars
    /\ \A s \in Sessions :
          (pc[s] = "ca_number" /\ Unused) ~> (pc[s] # "ca_number" \/ ~Unused)

\* C22 witness: one session has left the loop with a number no account
\* holds while the other stands in the loop with a candidate that is held.
C22_Witness ==
    \E s \in Sessions, t \in Sessions :
        /\ pc[s] = "ca_commit" /\ Missing(db, sess[s].account_number)
        /\ pc[t] = "ca_number" /\ ~Missing(db, sess[t].account_number)

\* The sum of the amounts of the rows of account id whose type is in types.
RECURSIVE SumAmounts(_, _, _)
SumAmounts(transactions, id, types) ==
    IF transactions = <<>> THEN 0
    ELSE (IF transactions[1].account_id = id /\ transactions[1].type \in types
          THEN transactions[1].amount ELSE 0)
         + SumAmounts(Tail(transactions), id, types)

\* C23: in every committed state the balance of every account is the sum of
\* the amounts of its deposit and transfer_in rows minus the sum of the
\* amounts of its withdrawal and transfer_out rows.
C23_LedgerConsistent ==
    \A i \in 1..Len(db.accounts) :
        db.accounts[i].balance =
            SumAmounts(db.transactions, i, {"deposit", "transfer_in"})
            - SumAmounts(db.transactions, i, {"withdrawal", "transfer_out"})

\* C24: for every account, the amounts of its committed withdrawal and
\* transfer_out rows (what successful calls debited) never add up to more than
\* the amounts of its deposit and transfer_in rows (what was credited).
C24_NoDoubleSpending ==
    \A i \in 1..Len(db.accounts) :
        SumAmounts(db.transactions, i, {"withdrawal", "transfer_out"})
            <= SumAmounts(db.transactions, i, {"deposit", "transfer_in"})

\* C25: a transfer returns one result, the first that applies of:
\* InvalidAmount (amount <= 0), SameAccount, SourceNotFound, TargetNotFound,
\* InsufficientFunds, success. The first two hold for every call; the others
\* for a call run alone from the start; and in every state a transfer that
\* loaded its source and finds no target returns TargetNotFound whatever the
\* balance of the source. (A call the storage fails is outside.)
C25_TransferPrecedence ==
    /\ [](\A s \in Sessions :
            LET c == call[s]
                S == query_account(start.accounts, c.account_number)
            IN
            (c.op = "transfer" /\ pc[s] = "done" /\ result[s] # "DatabaseError") =>
               /\ c.amount <= 0 => result[s] = "InvalidAmount"
               /\ (c.amount > 0 /\ c.account_number = c.target_account_number)
                     => result[s] = "SameAccount"
               /\ (Alone(s) /\ c.amount > 0 /\ c.account_number # c.target_account_number)
                     => result[s] =
                           IF S = NoAccount THEN "SourceNotFound"
                           ELSE IF Missing(start, c.target_account_number)
                           THEN "TargetNotFound"
                           ELSE IF S.balance < c.amount THEN "InsufficientFunds"
                           ELSE "ok")
    /\ [][\A s \in Sessions :
            ( /\ pc[s] = "tr_target" /\ Step(s) /\ result'[s] # "DatabaseError"
              /\ sess[s].account # NoAccount
              /\ Missing(db, call[s].target_account_number) ) =>
               result'[s] = "TargetNotFound"]_vars

\* C25 witness: a transfer from an account that holds less than the amount
\* to a number no account holds returned TargetNotFound, and a transfer from
\* a number no account holds to itself returned SameAccount.
C25_Witness ==
    \E s \in Sessions, t \in Sessions :
        /\ call[s].op = "transfer" /\ result[s] = "TargetNotFound"
        /\ sess[s].account.balance < call[s].amount
        /\ call[t].op = "transfer" /\ result[t] = "SameAccount"
        /\ Missing(db, call[t].account_number)
====
